---- MODULE Spec2Model ----
(***************************************************************************)
(* Model of the caching data-access layer of the IPMA weather proxy:       *)
(*   app/cache.py        TTLCache (get / set / clear, lazy expiration)     *)
(*   app/ipma_client.py  IPMAClient (three read-through operations over    *)
(*                       the module-level caches, and find_locality)       *)
(*   app/settings.py     the three TTL values                              *)
(***************************************************************************)
EXTENDS Integers, Sequences, FiniteSets, TLC

VARIABLES
    now,      \* the reading of time.time(), in seconds
    store,    \* store[c]: the _store dict of module-level cache c
    ret,      \* the last direct TTLCache call and what it returned
    task,     \* task[p]: where caller p is in its client operation
    fetches,  \* number of upstream GET requests issued so far
    query,    \* find_locality under test: its arguments
    answer    \* find_locality under test: what it returned

vars == <<now, store, ret, task, fetches, query, answer>>

-----------------------------------------------------------------------------
(* Python values.  None is a value like any other: a function that returns *)
(* None for "absent" returns the same object as one that returns a stored  *)
(* None.                                                                   *)

None == [t |-> "None"]
PyStr(s) == [t |-> "str", v |-> s]
PyList(s) == [t |-> "list", v |-> s]
PyDict(f) == [t |-> "dict", v |-> f]

EmptyDict == [k \in {} |-> None]

\* dict.get(key, default): the default only when the key is missing
DictGet(d, key, default) == IF key \in DOMAIN d THEN d[key] ELSE default

\* dict.pop(key, None) as a new dict
DictPop(d, key) == [k \in DOMAIN d \ {key} |-> d[k]]

-----------------------------------------------------------------------------
(* settings.py                                                             *)

CacheTtlLocalities == 12 * 60 * 60
CacheTtlClasses == 12 * 60 * 60
CacheTtlForecast == 30 * 60

-----------------------------------------------------------------------------
(* The clock.  time.time() is read at every get and set; between calls it  *)
(* moves forward to any later instant of a bounded set chosen around the   *)
(* configured TTLs: ages below, equal to and above the forecast TTL occur, *)
(* and ages up to the 12-hour TTL, above it once MaxSkew is positive.      *)

MaxSkew == 0

Instants ==
    { base + j : base \in {0, CacheTtlForecast, CacheTtlLocalities},
                 j \in 0..MaxSkew }

-----------------------------------------------------------------------------
(* cache.py: TTLCache                                                      *)

Caches == {"localities", "weather_types", "forecast"}

\* ipma_client.py lines 8-10: TTLCache(settings.cache_ttl_...)
Ttl(c) ==
    CASE c = "localities" -> CacheTtlLocalities
      [] c = "weather_types" -> CacheTtlClasses
      [] c = "forecast" -> CacheTtlForecast

\* TTLCache.__init__: an empty _store
EmptyStore == EmptyDict

\* the tuple (time.time(), value) that set stores
Entry(t, value) == [ts |-> t, value |-> value]

\* self._store.get(key), line 42: the item, or None
StoreItem(s, key) == DictGet(s, key, None)

ExpiredInclusive(item, ttl, t) == t - item.ts >= ttl

\* the expiry test of TTLCache.get, line 46
Expired(item, ttl, t) == t - item.ts > ttl

\* TTLCache.get: the value it returns.  `not item` holds of None only: a
\* stored item is a 2-tuple, which is never falsy.
CacheGetValue(s, ttl, key, t) ==
    LET item == StoreItem(s, key) IN
    IF item = None THEN None
    ELSE IF Expired(item, ttl, t) THEN None
    ELSE item.value

CacheGetStoreKeep(s, ttl, key, t) == s

CacheGetStoreSweep(s, ttl, key, t) ==
    [k \in {k \in DOMAIN s : ~Expired(s[k], ttl, t)} |-> s[k]]

CacheGetStoreTouch(s, ttl, key, t) ==
    LET item == StoreItem(s, key) IN
    IF item = None THEN s
    ELSE IF Expired(item, ttl, t) THEN DictPop(s, key)
    ELSE [s EXCEPT ![key] = Entry(t, item.value)]

\* TTLCache.get: the _store it leaves
CacheGetStore(s, ttl, key, t) ==
    LET item == StoreItem(s, key) IN
    IF item = None THEN s
    ELSE IF Expired(item, ttl, t) THEN DictPop(s, key)
    ELSE s

CacheSetKeepTs(s, key, value, t) ==
    [k \in DOMAIN s \cup {key} |->
        IF k = key
        THEN Entry(IF key \in DOMAIN s THEN s[key].ts ELSE t, value)
        ELSE s[k]]

CacheSetIfAbsent(s, key, value, t) ==
    IF key \in DOMAIN s THEN s
    ELSE [k \in DOMAIN s \cup {key} |-> IF k = key THEN Entry(t, value) ELSE s[k]]

\* TTLCache.set: the _store it leaves
CacheSet(s, key, value, t) ==
    [k \in DOMAIN s \cup {key} |-> IF k = key THEN Entry(t, value) ELSE s[k]]

CacheClearOne(s) ==
    IF DOMAIN s = {} THEN s ELSE DictPop(s, CHOOSE k \in DOMAIN s : TRUE)

\* TTLCache.clear: the _store it leaves
CacheClear(s) == EmptyDict

-----------------------------------------------------------------------------
(* Keys.  A key is a string; the forecast key is built from the id, so a   *)
(* key is modelled as the tuple of its parts.                              *)

ForecastIds == {1010500, 1110600}

LocalitiesKey == <<"localities">>
WeatherTypesKey == <<"weather_types">>
ForecastKey(id) == <<"forecast:", id>>

\* values handed to a cache called directly
DirectValues == {None, PyStr("a"), PyStr("b")}
DirectCaches == {"forecast", "localities"}
DirectKeys(c) == IF c = "forecast" THEN {ForecastKey(id) : id \in ForecastIds}
                 ELSE {LocalitiesKey}

\* the concurrent callers of the client: two requests being served at once
Callers == {"c1", "c2"}

NoCall == [op |-> "none"]
Idle == [pc |-> "idle"]
NoQuery == [name |-> <<>>]

-----------------------------------------------------------------------------
(* Direct calls of the cache API                                           *)

Tick ==
    /\ \E t \in Instants : t > now /\ now' = t
    /\ UNCHANGED <<store, ret, task, fetches, query, answer>>

Get(c, key) ==
    /\ store' = [store EXCEPT ![c] = CacheGetStore(store[c], Ttl(c), key, now)]
    /\ ret' = [op |-> "get", cache |-> c, key |-> key, at |-> now,
               item |-> StoreItem(store[c], key),
               out |-> CacheGetValue(store[c], Ttl(c), key, now)]
    /\ UNCHANGED <<now, task, fetches, query, answer>>

Set(c, key, value) ==
    /\ store' = [store EXCEPT ![c] = CacheSet(store[c], key, value, now)]
    /\ ret' = [op |-> "set", cache |-> c, key |-> key, value |-> value, at |-> now]
    /\ UNCHANGED <<now, task, fetches, query, answer>>

Clear(c) ==
    /\ store' = [store EXCEPT ![c] = CacheClear(store[c])]
    /\ ret' = [op |-> "clear", cache |-> c, had |-> DOMAIN store[c]]
    /\ UNCHANGED <<now, task, fetches, query, answer>>

Init ==
    /\ now = 0
    /\ store = [c \in Caches |-> EmptyStore]
    /\ ret = NoCall
    /\ task = [p \in Callers |-> Idle]
    /\ fetches = 0
    /\ query = NoQuery
    /\ answer = None

NextCache ==
    \/ Tick
    \/ \E c \in DirectCaches : \E key \in DirectKeys(c) : Get(c, key)
    \/ \E c \in DirectCaches : \E key \in DirectKeys(c), value \in DirectValues : Set(c, key, value)
    \/ \E c \in DirectCaches : Clear(c)

SpecCache == Init /\ [][NextCache]_vars

-----------------------------------------------------------------------------
(* ipma_client.py: the upstream provider.  A GET either fails (transport   *)
(* error, or raise_for_status on a non-2xx response) or yields the parsed  *)
(* JSON body; the provider may answer any of these at any request.         *)

Failures == {"RequestError", "HTTPStatusError"}

Porto == [globalIdLocal |-> 1131200, local |-> <<"P", "o", "r", "t", "o">>,
          idDistrito |-> 13, idConcelho |-> 12]

\* bodies of {base}/distrits-islands.json
LocalitiesBodies ==
    { PyDict([owner |-> PyStr("IPMA"), data |-> PyList(<<Porto>>)]),
      PyDict([owner |-> PyStr("IPMA")]),
      PyDict([owner |-> PyStr("IPMA"), data |-> None]) }

ClearSky == [idWeatherType |-> 1, descWeatherTypePT |-> "Ceu limpo",
             descWeatherTypeEN |-> "Clear sky"]
NoInfo == [idWeatherType |-> 0]
Cloudy == [idWeatherType |-> 1, descWeatherTypePT |-> "Nublado",
           descWeatherTypeEN |-> "Cloudy"]

\* bodies of {base}/weather-type-classe.json
WeatherTypeBodies ==
    { PyDict([owner |-> PyStr("IPMA"), data |-> PyList(<<NoInfo, Cloudy, ClearSky>>)]),
      PyDict([owner |-> PyStr("IPMA")]) }

\* bodies of {base}/forecast/meteorology/cities/daily/{id}.json
ForecastBodies(id) ==
    { PyDict([globalIdLocal |-> id, dataUpdate |-> "2024-01-01T09:00:00"]),
      PyDict([globalIdLocal |-> id, dataUpdate |-> "2024-01-01T21:00:00"]),
      None }

-----------------------------------------------------------------------------
(* ipma_client.py: IPMAClient over the module-level caches                 *)

MaxFetches == 2

Ops == {"get_localities", "get_weather_types", "get_daily_forecast"}

\* the cache instance and the key each operation uses
CacheOf(op) ==
    CASE op = "get_localities" -> "localities"
      [] op = "get_weather_types" -> "weather_types"
      [] op = "get_daily_forecast" -> "forecast"

KeyOf(op, id) ==
    CASE op = "get_localities" -> LocalitiesKey
      [] op = "get_weather_types" -> WeatherTypesKey
      [] op = "get_daily_forecast" -> ForecastKey(id)

\* get_localities, line 77: items = data.get("data", [])
LocalitiesItems(data) == DictGet(data.v, "data", PyList(<<>>))

\* get_weather_types, lines 101-106: a later item of the same id replaces an
\* earlier one; a missing description becomes ""
WeatherMapping(data) ==
    LET items == DictGet(data.v, "data", PyList(<<>>)).v
        ids == {items[i].idWeatherType : i \in DOMAIN items}
        last(id) == CHOOSE i \in DOMAIN items :
                       /\ items[i].idWeatherType = id
                       /\ \A j \in DOMAIN items :
                            items[j].idWeatherType = id => j <= i
    IN PyDict([id \in ids |->
                 [pt |-> DictGet(items[last(id)], "descWeatherTypePT", ""),
                  en |-> DictGet(items[last(id)], "descWeatherTypeEN", "")]])

\* which return statement of TTLCache.get the call left by
GetBranch(s, ttl, key, t) ==
    LET item == StoreItem(s, key) IN
    IF item = None THEN "absent"
    ELSE IF Expired(item, ttl, t) THEN "expired"
    ELSE "value"

Ready(p) == task[p].pc \in {"idle", "done"}

\* The part of an operation before its await: cached = cache.get(key); a
\* value other than None is returned at once, otherwise the GET is issued.
Begin(p, op, id) ==
    LET c == CacheOf(op)
        key == KeyOf(op, id)
        cached == CacheGetValue(store[c], Ttl(c), key, now)
    IN /\ Ready(p)
       /\ store' = [store EXCEPT ![c] = CacheGetStore(store[c], Ttl(c), key, now)]
       /\ IF cached # None
          THEN /\ task' = [task EXCEPT ![p] =
                     [pc |-> "done", op |-> op, id |-> id, how |-> "hit",
                      value |-> cached]]
               /\ fetches' = fetches
          ELSE /\ fetches < MaxFetches
               /\ fetches' = fetches + 1
               /\ task' = [task EXCEPT ![p] =
                     [pc |-> "fetch", op |-> op, id |-> id, req |-> fetches + 1,
                      branch |-> GetBranch(store[c], Ttl(c), key, now)]]
       /\ UNCHANGED <<now, ret, query, answer>>

\* The part after the await when _get_json returned: cache.set(key, value)
\* and return value.
Resume(p, value) ==
    LET op == task[p].op
        c == CacheOf(op)
        key == KeyOf(op, task[p].id)
    IN /\ store' = [store EXCEPT ![c] = CacheSet(store[c], key, value, now)]
       /\ task' = [task EXCEPT ![p] =
             [pc |-> "done", op |-> op, id |-> task[p].id, how |-> "fetched",
              value |-> value, req |-> task[p].req]]
       /\ UNCHANGED <<now, ret, fetches, query, answer>>

GetLocalitiesBegin(p) == Begin(p, "get_localities", 0)

GetLocalitiesResume(p, data) ==
    /\ task[p].pc = "fetch" /\ task[p].op = "get_localities"
    /\ Resume(p, LocalitiesItems(data))

GetWeatherTypesBegin(p) == Begin(p, "get_weather_types", 0)

GetWeatherTypesResume(p, data) ==
    /\ task[p].pc = "fetch" /\ task[p].op = "get_weather_types"
    /\ Resume(p, WeatherMapping(data))

GetDailyForecastBegin(p, id) == Begin(p, "get_daily_forecast", id)

GetDailyForecastResume(p, id, data) ==
    /\ task[p].pc = "fetch" /\ task[p].op = "get_daily_forecast"
    /\ task[p].id = id
    /\ Resume(p, data)

FetchFailsCachesNone(p, exc) ==
    /\ task[p].pc = "fetch"
    /\ task' = [task EXCEPT ![p] =
          [pc |-> "done", op |-> task[p].op, id |-> task[p].id, how |-> "raised",
           exc |-> exc, req |-> task[p].req, branch |-> task[p].branch]]
    /\ store' = [store EXCEPT ![CacheOf(task[p].op)] =
                    CacheSet(@, KeyOf(task[p].op, task[p].id), None, now)]
    /\ UNCHANGED <<now, ret, fetches, query, answer>>

\* _get_json raised: the exception leaves the operation, nothing is stored
FetchFails(p, exc) ==
    /\ task[p].pc = "fetch"
    /\ task' = [task EXCEPT ![p] =
          [pc |-> "done", op |-> task[p].op, id |-> task[p].id, how |-> "raised",
           exc |-> exc, req |-> task[p].req, branch |-> task[p].branch]]
    /\ UNCHANGED <<now, store, ret, fetches, query, answer>>

\* a clear() of one of the module-level caches
ClearCache(c) ==
    /\ store' = [store EXCEPT ![c] = CacheClear(store[c])]
    /\ UNCHANGED <<now, ret, task, fetches, query, answer>>

Next ==
    \/ Tick
    \/ \E p \in Callers : GetLocalitiesBegin(p)
    \/ \E p \in Callers : \E data \in LocalitiesBodies : GetLocalitiesResume(p, data)
    \/ \E p \in Callers : GetWeatherTypesBegin(p)
    \/ \E p \in Callers : \E data \in WeatherTypeBodies : GetWeatherTypesResume(p, data)
    \/ \E p \in Callers : \E id \in ForecastIds : GetDailyForecastBegin(p, id)
    \/ \E p \in Callers : \E id \in ForecastIds : \E data \in ForecastBodies(id) :
          GetDailyForecastResume(p, id, data)
    \/ \E p \in Callers : \E exc \in Failures : FetchFails(p, exc)
    \/ \E c \in Caches : ClearCache(c)

Spec == Init /\ [][Next]_vars

\* the forecast operation alone, as concurrent callers run it
NextForecast ==
    \/ Tick
    \/ \E p \in Callers : \E id \in ForecastIds : GetDailyForecastBegin(p, id)
    \/ \E p \in Callers : \E id \in ForecastIds : \E data \in ForecastBodies(id) :
          GetDailyForecastResume(p, id, data)
    \/ \E p \in Callers : \E exc \in Failures : FetchFails(p, exc)
    \/ ClearCache("forecast")

SpecForecast == Init /\ [][NextForecast]_vars

-----------------------------------------------------------------------------
(* ipma_client.py: two IPMAClient instances.  The caches are module-level  *)
(* objects, the same for every instance; an instance has only its          *)
(* base_url, from which it builds the URLs it fetches.                     *)

\* settings.ipma_base_url
IpmaBaseUrl == "https://api.ipma.pt/open-data"

\* IPMAClient.__init__: base_url or settings.ipma_base_url
InitBaseUrl(base_url) ==
    IF base_url = None \/ base_url = PyStr("") THEN IpmaBaseUrl ELSE base_url.v

\* the argument each caller's client was constructed with
BaseUrlArg(p) == IF p = "c1" THEN None ELSE PyStr("http://mirror.test/open-data")

\* self.base_url of the client caller p uses
BaseUrl(p) == InitBaseUrl(BaseUrlArg(p))

\* the server behind a base URL signs its documents
ServerOwner(base) == IF base = IpmaBaseUrl THEN "IPMA" ELSE "MIRROR"

MirrorPorto == [Porto EXCEPT !.globalIdLocal = 9131200]

\* bodies of {base}/distrits-islands.json
LocalitiesBodiesAt(base) ==
    { PyDict([owner |-> PyStr(ServerOwner(base)),
              data |-> PyList(<<IF base = IpmaBaseUrl THEN Porto ELSE MirrorPorto>>)]) }

\* bodies of {base}/forecast/meteorology/cities/daily/{id}.json
ForecastBodiesAt(base, id) ==
    { PyDict([owner |-> PyStr(ServerOwner(base)), globalIdLocal |-> id,
              dataUpdate |-> u]) :
        u \in {"2024-01-01T09:00:00", "2024-01-01T21:00:00"} }

NextClients ==
    \/ Tick
    \/ \E p \in Callers : GetLocalitiesBegin(p)
    \/ \E p \in Callers : \E data \in LocalitiesBodiesAt(BaseUrl(p)) :
          GetLocalitiesResume(p, data)
    \/ \E p \in Callers : \E id \in ForecastIds : GetDailyForecastBegin(p, id)
    \/ \E p \in Callers : \E id \in ForecastIds :
          \E data \in ForecastBodiesAt(BaseUrl(p), id) :
             GetDailyForecastResume(p, id, data)
    \/ \E p \in Callers : \E exc \in Failures : FetchFails(p, exc)

SpecClients == Init /\ [][NextClients]_vars

-----------------------------------------------------------------------------
(* ipma_client.py: find_locality.  A string is the sequence of its         *)
(* characters; a locality is a dict that may lack any of its fields.       *)

PyInt(n) == [t |-> "int", v |-> n]

\* str.lower(), on the characters the model uses
LowerChar(ch) ==
    CASE ch = "A" -> "a"
      [] ch = "B" -> "b"
      [] OTHER -> ch

Lower(str) == [i \in DOMAIN str |-> LowerChar(str[i])]

\* str.strip(): leading and trailing blanks removed, inner ones kept
Strip(str) ==
    LET inked == {i \in DOMAIN str : str[i] # " "} IN
    IF inked = {} THEN <<>>
    ELSE SubSeq(str,
                CHOOSE i \in inked : \A j \in inked : i <= j,
                CHOOSE i \in inked : \A j \in inked : j <= i)

\* needle in haystack
Contains(haystack, needle) ==
    \E i \in 0..(Len(haystack) - Len(needle)) :
        SubSeq(haystack, i + 1, i + Len(needle)) = needle

\* the default of x.get("idConcelho", ...) and x.get("globalIdLocal", ...)
MissingSortKey == 1000000

\* the default of l.get("idDistrito", ...)
MissingDistrict == -1

\* l.get("local", "").lower()
LocalLower(l) == Lower(DictGet(l, "local", <<>>))

\* int(l.get("idDistrito", -1)) == int(district_id), both being ints
InDistrict(l, district_id) ==
    DictGet(l, "idDistrito", MissingDistrict) = district_id.v

SortKeyGlobalIdFirst(x) ==
    <<DictGet(x, "globalIdLocal", MissingSortKey),
      DictGet(x, "idConcelho", MissingSortKey)>>

\* the key of the two sorted(...) calls
SortKey(x) ==
    <<DictGet(x, "idConcelho", MissingSortKey),
      DictGet(x, "globalIdLocal", MissingSortKey)>>

\* Python's order on 2-tuples of ints
TupleLess(a, b) == a[1] < b[1] \/ (a[1] = b[1] /\ a[2] < b[2])

\* sorted(items, key=SortKey): a stable sort, as an insertion from the left
RECURSIVE SortedByKey(_)
SortedByKey(items) ==
    IF items = <<>> THEN <<>>
    ELSE LET n == Len(items)
             front == SortedByKey(SubSeq(items, 1, n - 1))
             x == items[n]
             keep == {i \in DOMAIN front : ~TupleLess(SortKey(x), SortKey(front[i]))}
             k == Cardinality(keep)
         IN SubSeq(front, 1, k) \o <<x>> \o SubSeq(front, k + 1, Len(front))

DistrictFilter(items, district_id) ==
    IF district_id # None
    THEN LET Keep(l) == InDistrict(l, district_id) IN SelectSeq(items, Keep)
    ELSE items

ExactFirstOff(locs, locality_norm, district_id) ==
    LET IsSub(l) == Contains(LocalLower(l), locality_norm)
    IN DistrictFilter(SelectSeq(locs, IsSub), district_id)

\* lines 161-163: the exact matches, within the district if one is given
ExactCandidates(locs, locality_norm, district_id) ==
    LET IsExact(l) == LocalLower(l) = locality_norm
    IN DistrictFilter(SelectSeq(locs, IsExact), district_id)

\* lines 169-171: the records that contain the name
ContainsCandidates(locs, locality_norm, district_id) ==
    LET IsSub(l) == Contains(LocalLower(l), locality_norm)
    IN DistrictFilter(SelectSeq(locs, IsSub), district_id)

\* lines 159-175, on the list get_localities returned
Resolve(locs, locality, district_id) ==
    LET locality_norm == Lower(Strip(locality))
        candidates == ExactCandidates(locs, locality_norm, district_id)
        contains == ContainsCandidates(locs, locality_norm, district_id)
    IN IF candidates # <<>> THEN SortedByKey(candidates)[1]
       ELSE IF contains # <<>> THEN SortedByKey(contains)[1]
       ELSE None

\* The records upstream may list.  <<>> stands for a field the record lacks.
MkLocality(local, district, concelho, globalId) ==
    LET fields == (IF local = <<>> THEN {} ELSE {"local"})
                  \cup (IF district = <<>> THEN {} ELSE {"idDistrito"})
                  \cup (IF concelho = <<>> THEN {} ELSE {"idConcelho"})
                  \cup (IF globalId = <<>> THEN {} ELSE {"globalIdLocal"})
    IN [f \in fields |->
          CASE f = "local" -> local[1]
            [] f = "idDistrito" -> district[1]
            [] f = "idConcelho" -> concelho[1]
            [] f = "globalIdLocal" -> globalId[1]]

TieKeys ==
    { <<<<3>>, <<10>>>>, <<<<3>>, <<1010500>>>>, <<<<5>>, <<10>>>>,
      <<<<3>>, <<>>>>, <<<<>>, <<10>>>> }

Localities ==
    { MkLocality(<<local>>, district, k[1], k[2]) :
        local \in {<<"A">>, <<"b", "A">>},
        district \in {<<>>, <<1>>, <<2>>},
        k \in TieKeys }
    \cup { MkLocality(<<>>, <<1>>, <<3>>, <<10>>) }

MaxLocs == 2

RECURSIVE ListsUpTo(_)
ListsUpTo(n) ==
    IF n = 0 THEN {<<>>}
    ELSE LET shorter == ListsUpTo(n - 1) IN
         shorter \cup {Append(l, x) : l \in {s \in shorter : Len(s) = n - 1},
                                      x \in Localities}

\* the locality names asked for, and the district_id arguments
Names == { <<"A">>, <<"A", " ">>, <<" ", "b">>, <<" ", " ">>, <<"a", "a">> }
DistrictArgs == {None, PyInt(-1), PyInt(1), PyInt(2)}

NotCalled == [t |-> "NotCalled"]

\* find_locality when get_localities is served from the cache
FindLocality(locality, district_id) ==
    LET c == "localities"
        locs == CacheGetValue(store[c], Ttl(c), LocalitiesKey, now)
    IN /\ answer = NotCalled
       /\ locs # None
       /\ store' = [store EXCEPT ![c] =
                       CacheGetStore(store[c], Ttl(c), LocalitiesKey, now)]
       /\ query' = [name |-> locality, district |-> district_id]
       /\ answer' = Resolve(locs.v, locality, district_id)
       /\ UNCHANGED <<now, ret, task, fetches>>

\* the localities cache holds a list that an earlier get_localities stored
InitResolve ==
    /\ now = 0
    /\ \E locs \in ListsUpTo(MaxLocs) :
          store = [c \in Caches |->
                     IF c = "localities"
                     THEN CacheSet(EmptyStore, LocalitiesKey, PyList(locs), 0)
                     ELSE EmptyStore]
    /\ ret = NoCall
    /\ task = [p \in Callers |-> Idle]
    /\ fetches = 0
    /\ query = NoQuery
    /\ answer = NotCalled

NextResolve ==
    \E locality \in Names, district_id \in DistrictArgs :
        FindLocality(locality, district_id)

SpecResolve == InitResolve /\ [][NextResolve]_vars

-----------------------------------------------------------------------------
(* main.py: numeric normalisation of a forecast document.  A numeric field *)
(* arrives as a JSON number, string or null.  A float is the pair          *)
(* <<m, d>> standing for m / 10^d, with no trailing zero in the mantissa:  *)
(* the decimal literals of the model are short enough for two of them to   *)
(* give the same double exactly when they give the same pair.              *)

RECURSIVE Reduce(_, _)
Reduce(m, d) == IF d > 0 /\ m % 10 = 0 THEN Reduce(m \div 10, d - 1) ELSE <<m, d>>

PyFloat(m, d) == [t |-> "float", v |-> Reduce(m, d)]

\* an exception leaving an expression
Raised(exc) == [t |-> "raise", exc |-> exc]

DigitChars == <<"0", "1", "2", "3", "4", "5", "6", "7", "8", "9">>
IsDigit(ch) == \E i \in DOMAIN DigitChars : DigitChars[i] = ch
DigitVal(ch) == (CHOOSE i \in DOMAIN DigitChars : DigitChars[i] = ch) - 1

RECURSIVE DigitsValue(_)
DigitsValue(digits) ==
    IF digits = <<>> THEN 0
    ELSE 10 * DigitsValue(SubSeq(digits, 1, Len(digits) - 1))
         + DigitVal(digits[Len(digits)])

\* float(str): blanks around the literal are ignored; then an optional sign
\* and decimal digits with at most one point and at least one digit.  Any
\* other text of the model raises ValueError.
FloatOfStr(str) ==
    LET s == Strip(str)
        signed == s # <<>> /\ s[1] \in {"+", "-"}
        body == IF signed THEN Tail(s) ELSE s
        dots == {i \in DOMAIN body : body[i] = "."}
        digits == SelectSeq(body, IsDigit)
        wellFormed == /\ \A i \in DOMAIN body : IsDigit(body[i]) \/ body[i] = "."
                      /\ Cardinality(dots) <= 1
                      /\ digits # <<>>
        decimals == IF dots = {} THEN 0
                    ELSE Len(body) - (CHOOSE i \in dots : TRUE)
        m == DigitsValue(digits)
    IN IF wellFormed
       THEN PyFloat(IF signed /\ s[1] = "-" THEN 0 - m ELSE m, decimals)
       ELSE Raised("ValueError")

\* float(x) for the JSON values of the model
ToFloat(x) ==
    CASE x.t = "float" -> x
      [] x.t = "int" -> PyFloat(x.v, 0)
      [] x.t = "str" -> FloatOfStr(x.v)
      [] OTHER -> Raised("TypeError")

\* main.py line 111
NumericFields == {"tMin", "tMax", "precipitaProb", "latitude", "longitude"}

NormalizeDayDropsBad(d) ==
    LET bad == {k \in DOMAIN d \cap NumericFields :
                   d[k] # None /\ ToFloat(d[k]).t = "raise"}
    IN [k \in DOMAIN d \ bad |->
          IF k \in NumericFields /\ d[k] # None THEN ToFloat(d[k]) ELSE d[k]]

\* main.py lines 111-116 on one day record d: d[k] = float(d[k]) for the
\* fields that are present and not None, an exception of float() passed over
NormalizeDay(d) ==
    [k \in DOMAIN d |->
        IF k \in NumericFields /\ d[k] # None /\ ToFloat(d[k]).t # "raise"
        THEN ToFloat(d[k])
        ELSE d[k]]

\* main.py lines 110-116 on the document: what the loop leaves in it, or the
\* exception that leaves the loop (None has no .get; None cannot be iterated)
NormalizeDoc(data) ==
    IF data = None THEN Raised("AttributeError")
    ELSE LET days == DictGet(data.v, "data", PyList(<<>>)) IN
         IF days = None THEN Raised("TypeError")
         ELSE IF "data" \notin DOMAIN data.v THEN data
         ELSE PyDict([f \in DOMAIN data.v |->
                        IF f = "data"
                        THEN PyList([i \in DOMAIN days.v |-> NormalizeDay(days.v[i])])
                        ELSE data.v[f]])

-----------------------------------------------------------------------------
(* main.py: the two forecast routes, called with a global_id_local.  The   *)
(* document get_daily_forecast returns is the object the cache holds, so   *)
(* what a route writes into it is written into the cache entry.            *)

\* day records as upstream may send them; a field may be a number, a string,
\* null, or missing
Day1 == [forecastDate |-> PyStr("2024-01-01"),
         tMin |-> PyStr(<<"1", "2", ".", "5">>),
         tMax |-> PyInt(20),
         precipitaProb |-> PyFloat(5, 1),
         latitude |-> PyStr(<<" ", "3", "8", ".", "7">>),
         longitude |-> None,
         idWeatherType |-> PyInt(1),
         classWindSpeed |-> PyInt(2),
         predWindDir |-> PyStr("N")]

Day2 == [forecastDate |-> PyStr("2024-01-02"),
         tMin |-> PyStr(<<"n", "/", "a">>),
         tMax |-> PyStr(<<"2", "0">>),
         precipitaProb |-> PyStr(<<"0", ".", "0">>),
         longitude |-> PyStr(<<>>),
         idWeatherType |-> PyInt(0),
         classWindSpeed |-> None,
         predWindDir |-> PyStr("S")]

Day3 == [forecastDate |-> PyStr("2024-01-03"),
         tMin |-> PyStr(<<"7">>),
         tMax |-> None,
         predWindDir |-> None]

\* bodies of {base}/forecast/meteorology/cities/daily/{id}.json with day records
ForecastDocs(id) ==
    { PyDict([owner |-> PyStr("IPMA"), globalIdLocal |-> PyInt(id),
              data |-> PyList(<<Day1, Day2>>)]),
      PyDict([globalIdLocal |-> PyInt(id), data |-> PyList(<<Day3>>)]),
      PyDict([owner |-> PyStr("IPMA"), globalIdLocal |-> PyInt(id)]),
      PyDict([globalIdLocal |-> PyInt(id), data |-> None]),
      None }

\* the forecast_date arguments, in ISO format
ForecastDates == {"2024-01-01", "2024-01-02", "2024-01-03", "2024-01-09"}

\* the global_id_local arguments of the routes
RouteIds == {1010500}

\* int(x) for the values the routes pass to it: an int, or None
ToInt(x) ==
    CASE x.t = "int" -> x
      [] x.t = "None" -> Raised("TypeError")

\* replace the value of an entry, keeping its timestamp: a write into the
\* object the entry holds
WriteThrough(s, key, value) ==
    [s EXCEPT ![key] = Entry(s[key].ts, value)]

\* daily_forecast, lines 108-117, once get_daily_forecast has returned `got`
\* and left the caches as s: the loop writes into `got`, which the forecast
\* entry holds
DailyForecastDone(p, id, how, got, s) ==
    LET out == NormalizeDoc(got) IN
    /\ store' = IF out.t = "raise" THEN s
                ELSE [s EXCEPT !["forecast"] = WriteThrough(@, ForecastKey(id), out)]
    /\ task' = [task EXCEPT ![p] =
          [pc |-> "done", op |-> "daily_forecast", id |-> id, how |-> how,
           got |-> got, out |-> out]]

\* daily_forecast up to the await inside get_daily_forecast, or to its end
\* when the cache serves the document
DailyForecastBegin(p, id) ==
    LET c == "forecast"
        key == ForecastKey(id)
        cached == CacheGetValue(store[c], Ttl(c), key, now)
        s == [store EXCEPT ![c] = CacheGetStore(store[c], Ttl(c), key, now)]
    IN /\ Ready(p)
       /\ IF cached # None
          THEN /\ DailyForecastDone(p, id, "hit", cached, s)
               /\ fetches' = fetches
          ELSE /\ fetches < MaxFetches
               /\ fetches' = fetches + 1
               /\ store' = s
               /\ task' = [task EXCEPT ![p] =
                     [pc |-> "fetch", op |-> "daily_forecast", id |-> id,
                      req |-> fetches + 1,
                      branch |-> GetBranch(store[c], Ttl(c), key, now)]]
       /\ UNCHANGED <<now, ret, query, answer>>

\* daily_forecast from the return of _get_json to its end
DailyForecastResume(p, id, data) ==
    /\ task[p].pc = "fetch" /\ task[p].op = "daily_forecast"
    /\ task[p].id = id
    /\ DailyForecastDone(p, id, "fetched", data,
          [store EXCEPT !["forecast"] = CacheSet(@, ForecastKey(id), data, now)])
    /\ UNCHANGED <<now, ret, fetches, query, answer>>

\* forecast_for_day line 167: the first day record of the given date, or the
\* exception that leaves the handler (HTTPException 404 when there is none)
SelectDay(data, date) ==
    IF data = None THEN Raised("AttributeError")
    ELSE LET days == DictGet(data.v, "data", PyList(<<>>)) IN
         IF days = None THEN Raised("TypeError")
         ELSE LET hits == {i \in DOMAIN days.v :
                             DictGet(days.v[i], "forecastDate", None) = PyStr(date)}
              IN IF hits = {} THEN Raised("HTTPException")
                 ELSE PyDict(days.v[CHOOSE i \in hits : \A j \in hits : i <= j])

\* forecast_for_day lines 172-191: the result, or the first exception raised
\* in the order the expressions are evaluated
DayResult(data, day, date, wtypes) ==
    LET wt == ToInt(DictGet(day, "idWeatherType", None))
        cls == DictGet(day, "classWindSpeed", None)
        windClass == IF cls # None THEN ToInt(cls) ELSE None
        gid == ToInt(DictGet(data.v, "globalIdLocal", None))
        tMin == ToFloat(DictGet(day, "tMin", None))
        tMax == ToFloat(DictGet(day, "tMax", None))
        prob == ToFloat(DictGet(day, "precipitaProb", None))
        steps == <<wt, windClass, gid, tMin, tMax, prob>>
        failing == {i \in DOMAIN steps : steps[i].t = "raise"}
        label(lang) == IF wt.v \in DOMAIN wtypes.v
                       THEN DictGet(wtypes.v[wt.v], lang, "")
                       ELSE ""
    IN IF failing # {}
       THEN steps[CHOOSE i \in failing : \A j \in failing : i <= j]
       ELSE PyDict([globalIdLocal |-> gid,
                    forecastDate |-> PyStr(date),
                    tMin |-> tMin, tMax |-> tMax, precipitaProb |-> prob,
                    predWindDir |-> DictGet(day, "predWindDir", None),
                    weather |-> [id |-> wt, pt |-> label("pt"), en |-> label("en")],
                    wind |-> [class |-> windClass,
                              dir |-> DictGet(day, "predWindDir", None)]])

\* forecast_for_day from line 167 on, once get_daily_forecast has returned
\* `got` and left the caches as s, f requests having been issued: up to the
\* await inside get_weather_types, or to the end when that cache serves the
\* mapping or the handler raises before.  The fields read after that await are
\* left alone by the normalisation of daily_forecast or read through float(),
\* which gives the same result on a value and on its float.
ForecastForDayAfter(p, id, date, how, got, s, f) ==
    LET day == SelectDay(got, date)
        c == "weather_types"
        cached == CacheGetValue(s[c], Ttl(c), WeatherTypesKey, now)
        s2 == [s EXCEPT ![c] = CacheGetStore(s[c], Ttl(c), WeatherTypesKey, now)]
    IN IF day.t = "raise"
       THEN /\ store' = s
            /\ fetches' = f
            /\ task' = [task EXCEPT ![p] =
                  [pc |-> "done", op |-> "forecast_for_day", id |-> id,
                   date |-> date, how |-> how, got |-> got, out |-> day]]
       ELSE IF cached # None
       THEN /\ store' = s2
            /\ fetches' = f
            /\ task' = [task EXCEPT ![p] =
                  [pc |-> "done", op |-> "forecast_for_day", id |-> id,
                   date |-> date, how |-> how, got |-> got,
                   out |-> DayResult(got, day.v, date, cached)]]
       ELSE /\ f < MaxFetches
            /\ store' = s2
            /\ fetches' = f + 1
            /\ task' = [task EXCEPT ![p] =
                  [pc |-> "fetch_types", op |-> "forecast_for_day", id |-> id,
                   date |-> date, how |-> how, got |-> got, day |-> day.v,
                   req |-> f + 1]]

\* forecast_for_day up to its first await that suspends
ForecastForDayBegin(p, id, date) ==
    LET c == "forecast"
        key == ForecastKey(id)
        cached == CacheGetValue(store[c], Ttl(c), key, now)
        s == [store EXCEPT ![c] = CacheGetStore(store[c], Ttl(c), key, now)]
    IN /\ Ready(p)
       /\ IF cached # None
          THEN ForecastForDayAfter(p, id, date, "hit", cached, s, fetches)
          ELSE /\ fetches < MaxFetches
               /\ fetches' = fetches + 1
               /\ store' = s
               /\ task' = [task EXCEPT ![p] =
                     [pc |-> "fetch", op |-> "forecast_for_day", id |-> id,
                      date |-> date, req |-> fetches + 1,
                      branch |-> GetBranch(store[c], Ttl(c), key, now)]]
       /\ UNCHANGED <<now, ret, query, answer>>

\* forecast_for_day from the return of _get_json inside get_daily_forecast
ForecastForDayResume(p, id, data) ==
    /\ task[p].pc = "fetch" /\ task[p].op = "forecast_for_day"
    /\ task[p].id = id
    /\ ForecastForDayAfter(p, id, task[p].date, "fetched", data,
          [store EXCEPT !["forecast"] = CacheSet(@, ForecastKey(id), data, now)],
          fetches)
    /\ UNCHANGED <<now, ret, query, answer>>

\* forecast_for_day from the return of _get_json inside get_weather_types
ForecastForDayTypes(p, body) ==
    /\ task[p].pc = "fetch_types"
    /\ store' = [store EXCEPT !["weather_types"] =
                    CacheSet(@, WeatherTypesKey, WeatherMapping(body), now)]
    /\ task' = [task EXCEPT ![p] =
          [pc |-> "done", op |-> "forecast_for_day", id |-> task[p].id,
           date |-> task[p].date, how |-> task[p].how, got |-> task[p].got,
           out |-> DayResult(task[p].got, task[p].day, task[p].date,
                             WeatherMapping(body))]]
    /\ UNCHANGED <<now, ret, fetches, query, answer>>

\* _get_json raised inside get_weather_types
ForecastForDayTypesFail(p, exc) ==
    /\ task[p].pc = "fetch_types"
    /\ task' = [task EXCEPT ![p] =
          [pc |-> "done", op |-> "forecast_for_day", id |-> task[p].id,
           date |-> task[p].date, how |-> "raised", exc |-> exc,
           req |-> task[p].req]]
    /\ UNCHANGED <<now, store, ret, fetches, query, answer>>

NextRoutes ==
    \/ Tick
    \/ \E p \in Callers : \E id \in RouteIds : GetDailyForecastBegin(p, id)
    \/ \E p \in Callers : \E id \in RouteIds : \E data \in ForecastDocs(id) :
          GetDailyForecastResume(p, id, data)
    \/ \E p \in Callers : \E id \in RouteIds : DailyForecastBegin(p, id)
    \/ \E p \in Callers : \E id \in RouteIds : \E data \in ForecastDocs(id) :
          DailyForecastResume(p, id, data)
    \/ \E p \in Callers : \E id \in RouteIds : \E date \in ForecastDates :
          ForecastForDayBegin(p, id, date)
    \/ \E p \in Callers : \E id \in RouteIds : \E data \in ForecastDocs(id) :
          ForecastForDayResume(p, id, data)
    \/ \E p \in Callers : \E body \in WeatherTypeBodies : ForecastForDayTypes(p, body)
    \/ \E p \in Callers : \E exc \in Failures : ForecastForDayTypesFail(p, exc)
    \/ \E p \in Callers : \E exc \in Failures : FetchFails(p, exc)

SpecRoutes == Init /\ [][NextRoutes]_vars

\* the multi-day route and get_daily_forecast alone
NextDaily ==
    \/ Tick
    \/ \E p \in Callers : \E id \in RouteIds : GetDailyForecastBegin(p, id)
    \/ \E p \in Callers : \E id \in RouteIds : \E data \in ForecastDocs(id) :
          GetDailyForecastResume(p, id, data)
    \/ \E p \in Callers : \E id \in RouteIds : DailyForecastBegin(p, id)
    \/ \E p \in Callers : \E id \in RouteIds : \E data \in ForecastDocs(id) :
          DailyForecastResume(p, id, data)
    \/ \E p \in Callers : \E exc \in Failures : FetchFails(p, exc)

SpecDaily == Init /\ [][NextDaily]_vars

-----------------------------------------------------------------------------
(* Claims about TTLCache, under SpecCache                                  *)

\* whether cache c holds an entry for key whose age at time t is within the TTL
Present(c, key) == key \in DOMAIN store[c]
Age(c, key) == now - store[c][key].ts

\* C1: get(k) returns the stored value exactly when an entry for k is present
\* and now - insertedAt <= ttl (an age equal to the ttl included); with no
\* entry, or with age > ttl, it returns absent (None).
C1_GetReturnsValueIffFresh ==
    [][\A c \in DirectCaches : \A key \in DirectKeys(c) :
          Get(c, key) =>
            ret'.out = IF Present(c, key) /\ Age(c, key) <= Ttl(c)
                       THEN store[c][key].value
                       ELSE None]_vars

\* a get that returned a value other than None from an entry exactly ttl old
C1_Witness ==
    /\ ret.op = "get"
    /\ ret.item # None
    /\ ret.at - ret.item.ts = Ttl(ret.cache)
    /\ ret.out = ret.item.value
    /\ ret.out # None

\* C2: a get(k) that observes the entry stale removes it from the store, and
\* an absent entry stays absent, every get(k) returning None, at any later
\* time, until a set(k, _) is executed.
C2_StaleGetEvicts ==
    [][\A c \in DirectCaches : \A key \in DirectKeys(c) :
          /\ (Get(c, key) /\ Present(c, key) /\ Age(c, key) > Ttl(c))
                => key \notin DOMAIN store'[c]
          /\ (~Present(c, key) /\ ~(\E v \in DirectValues : Set(c, key, v)))
                => /\ key \notin DOMAIN store'[c]
                   /\ Get(c, key) => ret'.out = None]_vars

\* a get has just observed a stale entry, returned None, and the entry is gone
C2_Witness ==
    /\ ret.op = "get"
    /\ ret.item # None
    /\ ret.at - ret.item.ts > Ttl(ret.cache)
    /\ ret.out = None
    /\ ret.key \notin DOMAIN store[ret.cache]

\* C3: set(k, v) replaces the whole entry by (current time, v) whatever was
\* there before; a get(k) that directly follows it at the same clock reading
\* returns v, and the age of the entry counts from this set.
C3_SetOverwrites ==
    [][\A c \in DirectCaches : \A key \in DirectKeys(c) :
          /\ \A v \in DirectValues :
                Set(c, key, v) => /\ Present(c, key)'
                                  /\ store'[c][key] = Entry(now, v)
          /\ (Get(c, key) /\ ret.op = "set" /\ ret.cache = c /\ ret.key = key
                /\ ret.at = now)
                => /\ ret'.out = ret.value
                   /\ ret'.item.ts = now]_vars

\* a set over an entry inserted earlier, then a get at the same clock reading
\* that returned the new value from an entry stamped with the time of that set
C3_Witness ==
    /\ ret.op = "get"
    /\ ret.item # None
    /\ ret.item.ts = ret.at
    /\ ret.at > Ttl(ret.cache)
    /\ ret.out = PyStr("b")
    /\ Present(ret.cache, ret.key)


\* C12: clear() removes every entry of its cache and touches no other cache;
\* on an empty cache it changes nothing, and a clear() directly after a
\* clear() leaves the store as the first one left it.  After it, every key
\* stays absent and every get(k) returns None until a set(k, _) is executed.
C12_ClearRemovesAll ==
    [][\A c \in DirectCaches :
          /\ Clear(c)
                => /\ store'[c] = EmptyStore
                   /\ \A d \in Caches \ {c} : store'[d] = store[d]
                   /\ store[c] = EmptyStore => store' = store
                   /\ (ret.op = "clear" /\ ret.cache = c) => store' = store
                   /\ CacheClear(store'[c]) = store'[c]
          /\ \A key \in DirectKeys(c) :
                /\ (Get(c, key) /\ ret.op = "clear" /\ ret.cache = c)
                      => ret'.item = None /\ ret'.out = None
                /\ (~Present(c, key) /\ ~(\E v \in DirectValues : Set(c, key, v)))
                      => /\ ~Present(c, key)'
                         /\ Get(c, key) => ret'.out = None]_vars

\* a clear has just emptied a cache that held two entries, at a time when
\* another cache holds an entry, which is still there
C12_Witness ==
    /\ ret.op = "clear"
    /\ Cardinality(ret.had) = 2
    /\ store[ret.cache] = EmptyStore
    /\ \E d \in Caches \ {ret.cache} : store[d] # EmptyStore

\* a direct get or set on another key, or on another cache, than (c, key)
TouchesOther(c, key) ==
    \E d \in DirectCaches : \E k \in DirectKeys(d) :
       /\ d # c \/ k # key
       /\ Get(d, k) \/ \E v \in DirectValues : Set(d, k, v)

\* C16: an entry leaves the store only through a get on its key that observes
\* it stale, or through clear() of its cache; the passage of time, a get or
\* set on another key and a get on its key that finds it fresh leave the
\* entry as it is, however stale it has become.
C16_EvictionOnDemandOnly ==
    [][\A c \in DirectCaches : \A key \in DirectKeys(c) :
          /\ (Present(c, key) /\ ~Present(c, key)')
                => \/ Get(c, key) /\ Age(c, key) > Ttl(c)
                   \/ Clear(c)
          /\ ( /\ Present(c, key)
               /\ \/ Tick
                  \/ TouchesOther(c, key)
                  \/ Get(c, key) /\ Age(c, key) <= Ttl(c) )
                => /\ Present(c, key)'
                   /\ store'[c][key] = store[c][key]]_vars

\* a get on another key of the same cache has just run while an entry that
\* is already stale is still in the store
C16_Witness ==
    /\ ret.op = "get"
    /\ ret.at = now
    /\ \E key \in DirectKeys(ret.cache) :
          /\ key # ret.key
          /\ Present(ret.cache, key)
          /\ Age(ret.cache, key) > Ttl(ret.cache)

\* C19: a get never changes the timestamp of an entry: the timestamp of an
\* entry is the time of the last set on its key, a get that finds the entry
\* fresh leaves it as it is, and a get later than that time plus the ttl
\* returns None whatever gets ran in between.
C19_ReadsNeverExtendFreshness ==
    [][\A c \in DirectCaches : \A key \in DirectKeys(c) :
          /\ (Get(c, key) /\ Present(c, key) /\ Age(c, key) <= Ttl(c))
                => /\ Present(c, key)'
                   /\ store'[c][key] = store[c][key]
          /\ (Present(c, key)' /\ ~(\E v \in DirectValues : Set(c, key, v)))
                => /\ Present(c, key)
                   /\ store'[c][key].ts = store[c][key].ts
          /\ (\E v \in DirectValues : Set(c, key, v)) => store'[c][key].ts = now
          /\ (Get(c, key) /\ Present(c, key) /\ now > store[c][key].ts + Ttl(c))
                => ret'.out = None /\ ~Present(c, key)']_vars

\* a get returned the value of an entry set earlier, at an age within the
\* ttl, and the entry still carries the timestamp of that set
C19_Witness ==
    /\ ret.op = "get"
    /\ ret.item # None
    /\ ret.out # None
    /\ ret.at > ret.item.ts
    /\ ret.at - ret.item.ts < Ttl(ret.cache)
    /\ Present(ret.cache, ret.key)
    /\ store[ret.cache][ret.key] = ret.item

-----------------------------------------------------------------------------
(* Claims about the read-through operations                                *)

Fresh(c, key) == Present(c, key) /\ Age(c, key) <= Ttl(c)

OpIds(op) == IF op = "get_daily_forecast" THEN ForecastIds ELSE {0}

InFlight(q, op, id) ==
    task[q].pc = "fetch" /\ task[q].op = op /\ task[q].id = id

Fetched(q, op, id) ==
    /\ task[q].pc = "done" /\ task[q].how = "fetched"
    /\ task[q].op = op /\ task[q].id = id

\* C4 (as claimed): once a result is stored under the key of get_localities,
\* get_weather_types or get_daily_forecast(id), a later call for that key that
\* reads the cache no more than the ttl after the store performs no upstream
\* fetch and returns the stored value.
C4_FreshEntryIsServed ==
    [][\A p \in Callers : \A op \in Ops : \A id \in OpIds(op) :
          (Begin(p, op, id) /\ Fresh(CacheOf(op), KeyOf(op, id)))
            => /\ fetches' = fetches
               /\ task'[p].pc = "done"
               /\ task'[p].how = "hit"
               /\ task'[p].value = store[CacheOf(op)][KeyOf(op, id)].value]_vars

\* C5: there is no single-flight.  A caller that reads a miss while another
\* caller's fetch for the same key is in flight issues its own upstream
\* request, and every completed fetch executes its set: the entry becomes
\* (time of that set, value of that fetch) whatever another caller stored
\* before, so the last set wins.
C5_NoSingleFlightLastWriterWins ==
    [][\A p \in Callers : \A id \in ForecastIds :
          /\ ( /\ GetDailyForecastBegin(p, id)
               /\ ~Fresh("forecast", ForecastKey(id))
               /\ \E q \in Callers \ {p} : InFlight(q, "get_daily_forecast", id) )
               => /\ fetches' = fetches + 1
                  /\ InFlight(p, "get_daily_forecast", id)'
          /\ \A data \in ForecastBodies(id) :
               GetDailyForecastResume(p, id, data)
                 => /\ Present("forecast", ForecastKey(id))'
                    /\ store'["forecast"][ForecastKey(id)] = Entry(now, data)]_vars

\* both callers missed the same key, both fetched and both stored; the entry
\* holds the value of the fetch that was started first, whose set ran last
C5_Witness ==
    \E p, q \in Callers : \E id \in ForecastIds :
       /\ Fetched(p, "get_daily_forecast", id)
       /\ Fetched(q, "get_daily_forecast", id)
       /\ task[p].req < task[q].req
       /\ task[p].value # task[q].value
       /\ Present("forecast", ForecastKey(id))
       /\ store["forecast"][ForecastKey(id)].value = task[p].value
       /\ task[q].value # None

\* C6 (as claimed): when the read found the entry stale or absent and the
\* fetch fails, the call fails with that failure, no set is executed, and the
\* cache holds no entry for the key afterwards.
C6_FailureLeavesNoEntry ==
    [][\A p \in Callers : \A exc \in Failures :
          (FetchFails(p, exc) /\ task[p].branch \in {"absent", "expired"})
            => /\ task'[p].how = "raised" /\ task'[p].exc = exc
               /\ store' = store
               /\ ~Present(CacheOf(task[p].op), KeyOf(task[p].op, task[p].id))']_vars

\* C6 (amended): a read that finds the entry stale or absent removes it and
\* fetches upstream, never returning the stale value; when the fetch fails the
\* call fails with that same failure and executes no set; and an entry for
\* the key appears only by the set of a call whose fetch succeeded.  So after
\* the failure the key has no entry unless an overlapping call stored its own
\* result since the read, and a later call that finds no entry fetches again.
C6_FailureStoresNothing ==
    [][\A p \in Callers : \A id \in ForecastIds :
          /\ (GetDailyForecastBegin(p, id) /\ ~Fresh("forecast", ForecastKey(id)))
               => /\ ~Present("forecast", ForecastKey(id))'
                  /\ InFlight(p, "get_daily_forecast", id)'
                  /\ fetches' = fetches + 1
          /\ \A exc \in Failures :
               (FetchFails(p, exc) /\ task[p].id = id)
                 => /\ task'[p].pc = "done"
                    /\ task'[p].how = "raised" /\ task'[p].exc = exc
                    /\ store' = store
          /\ (~Present("forecast", ForecastKey(id)) /\ Present("forecast", ForecastKey(id))')
               => \E q \in Callers : \E data \in ForecastBodies(id) :
                     GetDailyForecastResume(q, id, data)]_vars

\* a call whose read evicted a stale entry has failed, and the key has no entry
C6_Witness ==
    \E p \in Callers :
       /\ task[p].pc = "done" /\ task[p].how = "raised"
       /\ task[p].branch = "expired"
       /\ task[p].exc = "HTTPStatusError"
       /\ ~Present("forecast", ForecastKey(task[p].id))

\* the entry of cache c for key, or None
EntryOf(c, key) == StoreItem(store[c], key)

\* C18 (as claimed): a cache hit returns to a caller only what its own client
\* instance stored, that is a document of the server its base_url names; and
\* an operation on one resource class or forecast id leaves the entries of
\* the other resource classes and forecast ids as they are.
C18_CachesPrivateAndIndependent ==
    [][\A p \in Callers :
          /\ \A id \in ForecastIds :
                /\ (GetDailyForecastBegin(p, id) /\ task'[p].pc = "done")
                      => task'[p].value \in ForecastBodiesAt(BaseUrl(p), id)
                /\ ( \/ GetDailyForecastBegin(p, id)
                     \/ \E q \in Callers : \E data \in ForecastBodiesAt(BaseUrl(q), id) :
                           GetDailyForecastResume(p, id, data) )
                      => /\ store'["localities"] = store["localities"]
                         /\ store'["weather_types"] = store["weather_types"]
                         /\ \A other \in ForecastIds \ {id} :
                               EntryOf("forecast", ForecastKey(other))'
                                 = EntryOf("forecast", ForecastKey(other))
          /\ (GetLocalitiesBegin(p) /\ task'[p].pc = "done")
                => \E data \in LocalitiesBodiesAt(BaseUrl(p)) :
                      task'[p].value = LocalitiesItems(data)
          /\ ( \/ GetLocalitiesBegin(p)
               \/ \E q \in Callers : \E data \in LocalitiesBodiesAt(BaseUrl(q)) :
                     GetLocalitiesResume(p, data) )
                => /\ store'["forecast"] = store["forecast"]
                   /\ store'["weather_types"] = store["weather_types"]]_vars

-----------------------------------------------------------------------------
(* Claims about find_locality, under SpecResolve                           *)

Called == answer # NotCalled

\* the locality list the call resolved against
Locs == store["localities"][LocalitiesKey].value.v

\* the trimmed, lower-cased name
Norm == Lower(Strip(query.name))

Carries(l, field) == field \in DOMAIN l

\* l is in scope: no district was given, or l is of the district given
InScope(l) ==
    query.district = None
    \/ (Carries(l, "idDistrito") /\ l.idDistrito = query.district.v)

\* the lower-cased `local` of a record; a record without one has the empty name
LocalOf(l) == IF Carries(l, "local") THEN Lower(l.local) ELSE <<>>

IsExact(l) == LocalOf(l) = Norm
IsSubstring(l) == Contains(LocalOf(l), Norm)

Tier1 == {i \in DOMAIN Locs : InScope(Locs[i]) /\ IsExact(Locs[i])}
Tier2 == {i \in DOMAIN Locs : InScope(Locs[i]) /\ IsSubstring(Locs[i])}
WinningTier == IF Tier1 # {} THEN Tier1 ELSE Tier2

CarriesBoth(l) == Carries(l, "idConcelho") /\ Carries(l, "globalIdLocal")

\* (idConcelho, globalIdLocal) of a is lexicographically below that of b
PairBelow(a, b) ==
    \/ a.idConcelho < b.idConcelho
    \/ (a.idConcelho = b.idConcelho /\ a.globalIdLocal < b.globalIdLocal)

\* C7: if some locality in scope (all localities, or those of the district
\* given) has a lower-cased `local` equal to the trimmed, lower-cased name,
\* find_locality returns one of those exact matches in scope; a record that
\* only contains the name is returned only when no exact match is in scope.
C7_ExactBeforeSubstring ==
    Called =>
      /\ Tier1 # {} =>
           /\ answer # None
           /\ \E i \in Tier1 : Locs[i] = answer
      /\ (answer # None /\ IsSubstring(answer) /\ ~IsExact(answer)) => Tier1 = {}

\* a name with blanks and capitals resolved to an exact match listed after a
\* record of the same scope that only contains the name and sorts before it
C7_Witness ==
    /\ Called
    /\ query.name # Norm
    /\ query.district # None
    /\ \E i \in Tier1, j \in Tier2 \ Tier1 :
          /\ j < i
          /\ CarriesBoth(Locs[i]) /\ CarriesBoth(Locs[j])
          /\ PairBelow(Locs[j], Locs[i])
          /\ answer = Locs[i]

\* C8: when the winning tier holds several candidates that all carry
\* idConcelho and globalIdLocal, the record returned is a candidate of that
\* tier and no candidate's (idConcelho, globalIdLocal) is lexicographically
\* below its own.
C8_SmallestPairWins ==
    (Called /\ Cardinality(WinningTier) >= 2
       /\ \A i \in WinningTier : CarriesBoth(Locs[i]))
      => /\ answer # None
         /\ \E i \in WinningTier : Locs[i] = answer
         /\ \A i \in WinningTier : ~PairBelow(Locs[i], answer)

\* two candidates; the one listed second was returned, on its smaller
\* idConcelho, although its globalIdLocal is the larger
C8_Witness ==
    /\ Called
    /\ Cardinality(WinningTier) = 2
    /\ \A i \in WinningTier : CarriesBoth(Locs[i])
    /\ answer = Locs[2]
    /\ Locs[1].idConcelho > answer.idConcelho
    /\ Locs[1].globalIdLocal < answer.globalIdLocal

\* C9 (as claimed): a candidate that lacks idConcelho is never returned while
\* another candidate of the winning tier carries it, and among candidates of
\* equal idConcelho one that lacks globalIdLocal is never returned while
\* another carries it.
C9_MissingFieldsSortLast ==
    (Called /\ answer # None /\ \E i \in WinningTier : Locs[i] = answer)
      => /\ ~Carries(answer, "idConcelho")
              => \A i \in WinningTier : ~Carries(Locs[i], "idConcelho")
         /\ ~Carries(answer, "globalIdLocal")
              => \A i \in WinningTier :
                    ( /\ Carries(Locs[i], "idConcelho") = Carries(answer, "idConcelho")
                      /\ Carries(answer, "idConcelho")
                           => Locs[i].idConcelho = answer.idConcelho )
                      => ~Carries(Locs[i], "globalIdLocal")

\* C10 (as claimed): a record returned for a call with a district_id has that
\* idDistrito; and when no record of that district contains the name, exact
\* matches of other districts notwithstanding, the call reports not-found.
C10_DistrictFilter ==
    (Called /\ query.district # None)
      => /\ answer # None
              => /\ Carries(answer, "idDistrito")
                 /\ answer.idDistrito = query.district.v
         /\ Tier2 = {} => answer = None

\* C11 (as claimed): find_locality returns None, a value, exactly when no
\* locality in scope has the trimmed, lower-cased name as a substring of its
\* lower-cased `local`; and a record it returns is a record of the list whose
\* lower-cased `local` contains that name.
C11_NotFoundIffNoSubstring ==
    Called =>
      /\ (answer = None) <=> (Tier2 = {})
      /\ answer # None
           => \E i \in DOMAIN Locs : Locs[i] = answer /\ IsSubstring(answer)

\* the locality list in the order given by the permutation f of its indices
Reordered(f) == [i \in DOMAIN Locs |-> Locs[f[i]]]

\* C15 (as claimed): find_locality returns the same record for every ordering
\* of the locality list it resolved against, candidates that share their
\* (idConcelho, globalIdLocal) key or lack both fields included.
C15_OrderIndependent ==
    Called =>
      \A f \in Permutations(DOMAIN Locs) :
         Resolve(Reordered(f), query.name, query.district) = answer

-----------------------------------------------------------------------------
(* Claims about the forecast routes, under SpecDaily and SpecRoutes        *)

\* caller p has finished the route `op` with a document from get_daily_forecast
RouteDone(p, op) ==
    /\ task[p].pc = "done" /\ task[p].op = op
    /\ task[p].how \in {"hit", "fetched"}

\* the day records of a forecast document, none when it has no list of them
DaysOf(doc) ==
    IF doc # None /\ "data" \in DOMAIN doc.v /\ doc.v.data # None
    THEN doc.v.data.v ELSE <<>>

\* the value can be coerced to a float
Coercible(x) == ToFloat(x).t = "float"

\* C13 (as claimed): the value stored under a forecast key changes only by a
\* set on that key: whenever the entry appears or differs from what it was, a
\* caller's fetch for that id has just returned and the entry is (time of the
\* set, document fetched); and a cache hit of get_daily_forecast(id) returns a
\* document as upstream sent it.
C13_CachedValuesNeverMutated ==
    [][\A id \in RouteIds :
          LET c == "forecast"
              key == ForecastKey(id)
          IN /\ ( /\ Present(c, key)'
                  /\ ~Present(c, key) \/ store'[c][key] # store[c][key] )
                  => \E p \in Callers : \E data \in ForecastDocs(id) :
                        /\ task[p].pc = "fetch" /\ task[p].id = id
                        /\ task'[p].pc # "fetch"
                        /\ store'[c][key] = Entry(now, data)
             /\ \A p \in Callers :
                  (GetDailyForecastBegin(p, id) /\ task'[p].pc = "done")
                     => task'[p].value \in ForecastDocs(id)]_vars

\* C14: in the multi-day forecast, whenever get_daily_forecast returned a
\* document with day records, the route raises nothing, the document keeps its
\* fields and its days, every day keeps its fields, and of each day a field
\* among tMin, tMax, precipitaProb, latitude, longitude that is present, not
\* null and coercible holds its float, every other field what it held before.
C14_NumericCoercionTolerance ==
    \A p \in Callers :
       (RouteDone(p, "daily_forecast") /\ DaysOf(task[p].got) # <<>>)
         => LET got == task[p].got
                out == task[p].out
            IN /\ out.t = "dict"
               /\ DOMAIN out.v = DOMAIN got.v
               /\ \A f \in DOMAIN got.v \ {"data"} : out.v[f] = got.v[f]
               /\ Len(DaysOf(out)) = Len(DaysOf(got))
               /\ \A i \in DOMAIN DaysOf(got) :
                     LET d == DaysOf(got)[i]
                         e == DaysOf(out)[i]
                     IN /\ DOMAIN e = DOMAIN d
                        /\ \A k \in DOMAIN d :
                              IF k \in NumericFields /\ d[k] # None /\ Coercible(d[k])
                              THEN e[k].t = "float" /\ e[k] = ToFloat(d[k])
                              ELSE e[k] = d[k]

\* the multi-day forecast returned a document in which "12.5" became the
\* float 12.5, the number 20 the float 20.0, " 38.7" the float 38.7, while
\* "n/a" and "" stayed strings, null stayed null and a missing latitude
\* stayed missing
C14_Witness ==
    \E p \in Callers :
       /\ RouteDone(p, "daily_forecast")
       /\ Len(DaysOf(task[p].got)) = 2
       /\ DaysOf(task[p].got)[1].tMin = PyStr(<<"1", "2", ".", "5">>)
       /\ DaysOf(task[p].out)[1].tMin = [t |-> "float", v |-> <<125, 1>>]
       /\ DaysOf(task[p].out)[1].tMax = [t |-> "float", v |-> <<20, 0>>]
       /\ DaysOf(task[p].out)[1].latitude = [t |-> "float", v |-> <<387, 1>>]
       /\ DaysOf(task[p].out)[1].longitude = None
       /\ DaysOf(task[p].out)[2].tMin = PyStr(<<"n", "/", "a">>)
       /\ DaysOf(task[p].out)[2].longitude = PyStr(<<>>)
       /\ "latitude" \notin DOMAIN DaysOf(task[p].out)[2]
       /\ DaysOf(task[p].out)[2].idWeatherType = PyInt(0)

\* the day record carries a tMin, tMax or precipitaProb that is present, not
\* null and cannot be coerced to a float
CarriesUncoercible(d) ==
    \E k \in {"tMin", "tMax", "precipitaProb"} \cap DOMAIN d :
        d[k] # None /\ ~Coercible(d[k])

\* nothing else in the document or the day makes the single-day route raise
WellFormedOtherwise(doc, d) ==
    /\ "globalIdLocal" \in DOMAIN doc.v /\ doc.v.globalIdLocal.t = "int"
    /\ "idWeatherType" \in DOMAIN d /\ d.idWeatherType.t = "int"
    /\ "classWindSpeed" \in DOMAIN d => d.classWindSpeed.t \in {"int", "None"}

\* C17 (as claimed): when get_daily_forecast returned a document with a day
\* record that carries an uncoercible tMin, tMax or precipitaProb, the
\* multi-day forecast completes without raising, and so does the single-day
\* forecast for the date of that record.
C17_CoercionFailureNeverRaises ==
    \A p \in Callers :
       /\ ( /\ RouteDone(p, "daily_forecast")
            /\ \E i \in DOMAIN DaysOf(task[p].got) :
                  CarriesUncoercible(DaysOf(task[p].got)[i]) )
            => task[p].out.t # "raise"
       /\ ( /\ RouteDone(p, "forecast_for_day")
            /\ SelectDay(task[p].got, task[p].date).t = "dict"
            /\ CarriesUncoercible(SelectDay(task[p].got, task[p].date).v)
            /\ WellFormedOtherwise(task[p].got, SelectDay(task[p].got, task[p].date).v) )
            => task[p].out.t # "raise"

====
